---- MODULE Spec2Model ----
(***************************************************************************)
(* Model of the UK Economic Insight Agent: the refresh scheduler of        *)
(* app.py (run_periodic_ingestion, manual_refresh, the report button) and  *)
(* the orchestrator of src/orchestrator.py (classify_intent,               *)
(* analyze_trend, lookup_facts, generate_report, save_report,              *)
(* answer_question), and the feed fan-out of src/data_ingestion.py         *)
(* (fetch_feed_async, fetch_all_feeds_concurrent).                         *)
(*                                                                         *)
(* Time: every instant is a whole number of hours on the wall clock, so    *)
(* timedelta(hours=1) is 1 and two calls of datetime.now() at the same     *)
(* clock value give the same timestamp and the same file name.             *)
(*                                                                         *)
(* Concurrency: Streamlit runs each session's script in a thread of its    *)
(* own and get_global_state() is one object shared by all of them          *)
(* (st.cache_resource).  A session's step is one statement (or one call of *)
(* a collaborator) of the script; steps of different sessions interleave.  *)
(***************************************************************************)
EXTENDS Integers, Sequences, FiniteSets, TLC

VARIABLES
    clock,                \* the wall clock, datetime.now()
    last_ingestion_time,  \* GlobalState.last_ingestion_time (None or a time)
    key,                  \* whether GROQ_API_KEY is set in the environment
    store,                \* the Chroma collection: the sequence of documents added so far
    files,                \* the reports/ directory: file name (its time stamp) -> content
    pc,                   \* each session's position in its script
    now,                  \* each session's local `now` of run_periodic_ingestion
    report,               \* each session's local `report`
    runs,                 \* number of script runs started so far
    forced,               \* history: whether manual_refresh has reset the time
    res,                  \* the outcome of the last direct orchestrator call
    tasks,                \* fetch_all_feeds_concurrent: the task of each feed
    results,              \* fetch_all_feeds_concurrent: what the batch has returned
    elapsed               \* the time the event loop has run since the batch began

vars == <<clock, last_ingestion_time, key, store, files, pc, now, report,
          runs, forced, res, tasks, results, elapsed>>

-----------------------------------------------------------------------------
(* Bounds of the model *)

MaxClock == 3
MaxRuns == 2
MaxTs == 2
MaxRawLen == 2
MaxQueryStore == 2
MaxFew == 2
MaxSaves == 1
MaxEntries == 2
MaxDelay == 2
MaxChunks == 1

(* Program constants *)

None == -1
Interval == 1
ReportK == 10
TrendNewsK == 5
FactK == 5
DigestPoolK == 20
DigestTop == 10
NumFeeds == 3
ArticlesPerFeed == 5

Sessions == {1, 2}

NO_PAST_REPORTS == "No past reports found."
NO_KEY_MSG == "Please enter your Groq API Key first."
NO_KEY_ENV_MSG == "Please ensure GROQ_API_KEY is set in your .env file."
NOT_FOUND_MSG == "I cannot find information in my database to answer that right now."
NO_NEWS_MSG == "No recent news found to generate a report."
GENERAL_MSG == "I am the UK Economic Insight Agent. I can provide market reports, analyze trends, or answer specific questions about the economy. How can I help you today?"

\* What the LLM completion service can answer to a summary, fact or trend prompt.
LLMTexts == {"llm_text"}

-----------------------------------------------------------------------------
(* The evidence store *)

Chunk(type, timestamp, content) ==
    [type |-> type, timestamp |-> timestamp, content |-> content]

Ids(st) == 1..Len(st)

Max(S) == CHOOSE x \in S : \A y \in S : y <= x

Min2(a, b) == IF a <= b THEN a ELSE b

\* The subsets of S with min(k, |S|) elements.
RECURSIVE KSubsets(_, _)
KSubsets(S, k) ==
    IF Cardinality(S) <= k THEN {S}
    ELSE IF k = 0 THEN {{}}
    ELSE LET x == CHOOSE y \in S : TRUE
         IN  {T \cup {x} : T \in KSubsets(S \ {x}, k - 1)} \cup KSubsets(S \ {x}, k)

\* vectorstore.similarity_search(term, k, filter): the k documents nearest to the
\* term among those the filter keeps; which ones is the embedding's choice.
\* `matching` is the set of ids the filter keeps.
SimilaritySearch(matching, k) == KSubsets(matching, k)

OfType(st, type) == {i \in Ids(st) : st[i].type = type}

RECURSIVE SortedByTimestampAsc(_, _)
SortedByTimestampAsc(st, D) ==
    IF D = {} THEN {<<>>}
    ELSE UNION {{<<i>> \o q : q \in SortedByTimestampAsc(st, D \ {i})}
                : i \in {i \in D : \A j \in D : st[i].timestamp <= st[j].timestamp}}

\* docs.sort(key=timestamp, reverse=True) over every order the search can
\* return the documents D in: newest first; the sort is stable, so documents
\* of one timestamp stay in the order of the search.
RECURSIVE SortedByTimestamp(_, _)
SortedByTimestamp(st, D) ==
    IF D = {} THEN {<<>>}
    ELSE UNION {{<<i>> \o q : q \in SortedByTimestamp(st, D \ {i})}
                : i \in {i \in D : \A j \in D : st[i].timestamp >= st[j].timestamp}}

-----------------------------------------------------------------------------
(* orchestrator.generate_report and orchestrator.save_report *)

GenOutcome(ret, raised, llm_calls, docs, recent_docs) ==
    [ret |-> ret, raised |-> raised, llm_calls |-> llm_calls,
     docs |-> docs, recent_docs |-> recent_docs]

\* generate_report(): every outcome the call can have on store st with the
\* credential present (k) or not.  The LLM call answers a text or raises.
generate_report(st, k) ==
    IF ~k THEN {GenOutcome(NO_KEY_MSG, FALSE, 0, {}, <<>>)}
    ELSE UNION {
        UNION {
            LET recent_docs == SubSeq(sorted, 1, Min2(DigestTop, Len(sorted)))
            IN  IF recent_docs = <<>>
                THEN {GenOutcome(NO_NEWS_MSG, FALSE, 0, docs, recent_docs)}
                ELSE {GenOutcome(t, FALSE, 1, docs, recent_docs) : t \in LLMTexts}
                     \cup {GenOutcome("", TRUE, 1, docs, recent_docs)}
            : sorted \in SortedByTimestamp(st, docs)}
        : docs \in SimilaritySearch(OfType(st, "news_chunk"), DigestPoolK)}

SaveOutcome(st, fs, raised) == [store |-> st, files |-> fs, raised |-> raised]

WriteFile(fs, name, content) ==
    [n \in DOMAIN fs \cup {name} |-> IF n = name THEN content ELSE fs[n]]

\* The report's file name: the local time to the minute.
ReportFileName(t) == t

IndexReportUnstamped(st, t, content) == Append(st, Chunk("report", 0, content))

IndexReport(st, t, content) == Append(st, Chunk("report", t, content))

\* save_report(report_content) at time t: the file write raises (nothing is
\* written or indexed), or the file is written and the document is added to
\* the store, or the file is written and the indexing fails (swallowed).
save_report(st, fs, t, content) ==
    {SaveOutcome(st, fs, TRUE),
     SaveOutcome(st, WriteFile(fs, ReportFileName(t), content), FALSE),
     SaveOutcome(IndexReport(st, t, content),
                 WriteFile(fs, ReportFileName(t), content), FALSE)}

-----------------------------------------------------------------------------
(* orchestrator.py: the calls that only read the store *)

Res(o, ret, raised, llm_calls) ==
    [op |-> o, ret |-> ret, raised |-> raised, llm_calls |-> llm_calls,
     raw |-> <<>>, past_reports |-> {}, old_context |-> "",
     last_report_time |-> 0, recent_news |-> {}, docs |-> {}, recent_docs |-> <<>>]

NoRes == Res("none", "", FALSE, 0)

\* The router's raw answer is a sequence of tokens: a token is one of the four
\* labels, white space, or "other", a piece of text that holds no label.
Labels == <<"FACT_LOOKUP", "TREND_ANALYSIS", "SUMMARY", "GENERAL">>
LabelSet == {Labels[i] : i \in 1..Len(Labels)}
Tokens == LabelSet \cup {" ", "other"}
RawOutputs == UNION {[1..n -> Tokens] : n \in 0..MaxRawLen}

\* str.strip()
RECURSIVE Strip(_)
Strip(text) ==
    IF text = <<>> THEN text
    ELSE IF Head(text) = " " THEN Strip(Tail(text))
    ELSE IF text[Len(text)] = " " THEN Strip(SubSeq(text, 1, Len(text) - 1))
    ELSE text

\* `valid in current_intent`
Contains(valid, text) == \E i \in 1..Len(text) : text[i] = valid

ValidateDefaultGeneral(current_intent) ==
    LET hits == {i \in 1..Len(Labels) : Contains(Labels[i], current_intent)}
    IN  Labels[CHOOSE i \in hits \cup {Len(Labels)} : \A j \in hits \cup {Len(Labels)} : i <= j]

\* classify_intent, lines 67-70: the first label, in the order of the list, that
\* the answer contains; FACT_LOOKUP when it contains none.
Validate(current_intent) ==
    LET hits == {i \in 1..Len(Labels) : Contains(Labels[i], current_intent)}
    IN  IF hits = {} THEN "FACT_LOOKUP"
        ELSE Labels[CHOOSE i \in hits : \A j \in hits : i <= j]

\* classify_intent(query): no llm, or the router chain raises, or it answers raw.
classify_intent(k) ==
    IF ~k THEN {Res("classify_intent", "FACT_LOOKUP", FALSE, 0)}
    ELSE {[Res("classify_intent", "FACT_LOOKUP", FALSE, 1) EXCEPT !.raw = <<"raises">>]}
         \cup {[Res("classify_intent", Validate(Strip(raw)), FALSE, 1) EXCEPT !.raw = raw]
               : raw \in RawOutputs}

TrendNewsFilterInclusive(st, last_report_time) ==
    {i \in OfType(st, "news_chunk") : st[i].timestamp >= last_report_time}

\* analyze_trend, lines 103-108: type = news_chunk and timestamp > last_report_time
TrendNewsFilter(st, last_report_time) ==
    {i \in OfType(st, "news_chunk") : st[i].timestamp > last_report_time}

\* analyze_trend, lines 92-93: sort by timestamp, newest first, and take the
\* head; the sort is stable, so among the newest the search order decides.
LatestOf(st, past_reports) ==
    {i \in past_reports : \A j \in past_reports : st[i].timestamp >= st[j].timestamp}

\* analyze_trend, lines 112-117: TREND_PROMPT | llm raises TypeError when llm is
\* None; otherwise the chain answers a text or raises.
TrendChain(k, r) ==
    IF ~k THEN {[r EXCEPT !.raised = TRUE]}
    ELSE {[r EXCEPT !.ret = t, !.llm_calls = 1] : t \in LLMTexts}
         \cup {[r EXCEPT !.raised = TRUE, !.llm_calls = 1]}

TrendNews(st, k, r) ==
    UNION {TrendChain(k, [r EXCEPT !.recent_news = recent_news])
           : recent_news \in SimilaritySearch(TrendNewsFilter(st, r.last_report_time),
                                              TrendNewsK)}

\* analyze_trend(query)
analyze_trend(st, k) ==
    UNION {
        IF past_reports = {}
        THEN TrendNews(st, k, [Res("analyze_trend", "", FALSE, 0) EXCEPT
                                  !.old_context = NO_PAST_REPORTS,
                                  !.last_report_time = 0])
        ELSE UNION {
            TrendNews(st, k, [Res("analyze_trend", "", FALSE, 0) EXCEPT
                                  !.past_reports = past_reports,
                                  !.old_context = st[latest_report].content,
                                  !.last_report_time = st[latest_report].timestamp])
            : latest_report \in LatestOf(st, past_reports)}
        : past_reports \in SimilaritySearch(OfType(st, "report"), ReportK)}

lookup_facts_no_empty_check(st, k) ==
    IF ~k THEN {Res("lookup_facts", NO_KEY_MSG, FALSE, 0)}
    ELSE {Res("lookup_facts", t, FALSE, 1) : t \in LLMTexts}
         \cup {Res("lookup_facts", "", TRUE, 1)}

\* lookup_facts(query, chat_history)
lookup_facts(st, k) ==
    IF ~k THEN {Res("lookup_facts", NO_KEY_MSG, FALSE, 0)}
    ELSE UNION {
        IF docs = {} THEN {Res("lookup_facts", NOT_FOUND_MSG, FALSE, 0)}
        ELSE {Res("lookup_facts", t, FALSE, 1) : t \in LLMTexts}
             \cup {Res("lookup_facts", "", TRUE, 1)}
        : docs \in SimilaritySearch(Ids(st), FactK)}

\* answer_question(query, chat_history): the router's call and the branch's.
answer_question(st, k) ==
    IF ~k THEN {Res("answer_question", NO_KEY_ENV_MSG, FALSE, 0)}
    ELSE UNION {
        LET After(r) == [r EXCEPT !.op = "answer_question",
                                  !.llm_calls = r.llm_calls + c.llm_calls]
        IN  CASE c.ret = "TREND_ANALYSIS" -> {After(r) : r \in analyze_trend(st, k)}
              [] c.ret = "SUMMARY" ->
                    {After(Res("", o.ret, o.raised, o.llm_calls))
                     : o \in generate_report(st, k)}
              [] c.ret = "GENERAL" -> {After(Res("", GENERAL_MSG, FALSE, 0))}
              [] OTHER -> {After(r) : r \in lookup_facts(st, k)}
        : c \in classify_intent(k)}

-----------------------------------------------------------------------------
(* data_ingestion.py: the fan-out of fetch_all_feeds_concurrent *)

\* The feeds, by their index in the list RSS_FEEDS.
RSS_FEEDS == 1..NumFeeds

\* The task of one fetch_feed_async(feed_url): its position, the entries its
\* loop has still to process, its all_chunks (each chunk tagged with its feed),
\* whether its except clause has run, and the time at which it began to run.
Task(position, entries, all_chunks, failed, started) ==
    [pc |-> position, entries |-> entries, all_chunks |-> all_chunks,
     failed |-> failed, started |-> started]

\* fetch_all_feeds_concurrent, lines 155-156: one task per feed, handed to
\* asyncio.gather; none has run yet.
BatchLaunched ==
    /\ tasks = [f \in RSS_FEEDS |-> Task("pending", 0, <<>>, FALSE, None)]
    /\ results = [returned |-> FALSE, all_chunks |-> <<>>]
    /\ elapsed = 0

\* No batch is in progress: fetch_all_feeds_concurrent has not been entered.
NoBatch ==
    /\ tasks = <<>>
    /\ results = [returned |-> FALSE, all_chunks |-> <<>>]
    /\ elapsed = 0

Unchanged_app ==
    UNCHANGED <<clock, last_ingestion_time, key, store, files, pc, now, report,
                runs, forced, res>>

\* A task is in the body of its coroutine.
Running == {f \in RSS_FEEDS : tasks[f].pc \in {"parse", "articles"}}

\* The event loop gives the task of feed f its first step.  The loop has one
\* thread and takes the ready tasks in the order gather made them; a task
\* keeps the thread until it awaits or returns, and fetch_feed_async has no
\* await in its body.
FeedStart(f) ==
    /\ tasks[f].pc = "pending"
    /\ Running = {}
    /\ \A g \in RSS_FEEDS : g < f => tasks[g].pc = "done"
    /\ tasks' = [tasks EXCEPT ![f].pc = "parse", ![f].started = elapsed]
    /\ UNCHANGED <<results, elapsed>>
    /\ Unchanged_app

\* fetch_feed_async, lines 130-136: feedparser.parse(feed_url), a blocking
\* call that takes d units of time; it raises (lines 145-146, then the return
\* of line 148) or gives n entries, of which the first five are kept.
FeedParse(f) ==
    /\ tasks[f].pc = "parse"
    /\ \E d \in 1..MaxDelay :
          /\ elapsed' = elapsed + d
          /\ \/ tasks' = [tasks EXCEPT ![f].pc = "done", ![f].failed = TRUE]
             \/ \E n \in 0..MaxEntries :
                   tasks' = [tasks EXCEPT
                                ![f].entries = Min2(ArticlesPerFeed, n),
                                ![f].pc = IF n = 0 THEN "done" ELSE "articles"]
    /\ UNCHANGED results
    /\ Unchanged_app

\* fetch_feed_async, lines 140-142: process_article(entry, feed_url), blocking
\* for d units of time, returns c chunks (none when the article fails or is
\* too short); after the last entry the task returns all_chunks (line 148).
FeedArticle(f) ==
    /\ tasks[f].pc = "articles"
    /\ \E d \in 1..MaxDelay, c \in 0..MaxChunks :
          /\ elapsed' = elapsed + d
          /\ tasks' = [tasks EXCEPT
                          ![f].all_chunks = @ \o [i \in 1..c |-> f],
                          ![f].entries = @ - 1,
                          ![f].pc = IF tasks[f].entries = 1 THEN "done" ELSE "articles"]
    /\ UNCHANGED results
    /\ Unchanged_app

RECURSIVE Flatten(_, _)
Flatten(ts, n) == IF n = 0 THEN <<>> ELSE Flatten(ts, n - 1) \o ts[n].all_chunks

\* fetch_all_feeds_concurrent, lines 156-163: gather has the result of every
\* task; the chunks are flattened in the order of the feeds and returned.
Gather ==
    /\ ~results.returned
    /\ \A f \in RSS_FEEDS : tasks[f].pc = "done"
    /\ results' = [returned |-> TRUE, all_chunks |-> Flatten(tasks, NumFeeds)]
    /\ UNCHANGED <<tasks, elapsed>>
    /\ Unchanged_app

InitFeeds ==
    /\ clock = 1
    /\ last_ingestion_time = None
    /\ key \in BOOLEAN
    /\ store = <<>>
    /\ files = <<>>
    /\ pc = [s \in Sessions |-> "idle"]
    /\ now = [s \in Sessions |-> None]
    /\ report = [s \in Sessions |-> ""]
    /\ runs = 0
    /\ forced = FALSE
    /\ res = NoRes
    /\ BatchLaunched

NextFeeds ==
    \/ \E f \in RSS_FEEDS : FeedStart(f)
    \/ \E f \in RSS_FEEDS : FeedParse(f)
    \/ \E f \in RSS_FEEDS : FeedArticle(f)
    \/ Gather

SpecFeeds == InitFeeds /\ [][NextFeeds]_vars

-----------------------------------------------------------------------------
(* app.py: the refresh scheduler and the report button *)

DueAtInterval(last, t) == last = None \/ (t - last) >= Interval

Due(last, t) == last = None \/ (t - last) > Interval

NewsAfterIngestRebuilt(st, t) ==
    {st, <<Chunk("news_chunk", t, "article")>>}

\* data_ingestion.ingest_data(): the stores it can leave: no document found
\* (nothing is added), or the news chunks of the feeds added.  A chunk is
\* stamped here with the time of the ingestion, what get_timestamp gives for
\* an entry with no published date; no step of the scheduler or of the report
\* button depends on it, and the stores of SpecQuery, SpecTrend and SpecDigest
\* hold news chunks of every timestamp.
NewsAfterIngest(st, t) ==
    {st, Append(st, Chunk("news_chunk", t, "article"))}

\* The run ends normally: its locals are gone.
Finish(s) ==
    /\ pc' = [pc EXCEPT ![s] = "idle"]
    /\ now' = [now EXCEPT ![s] = None]
    /\ report' = [report EXCEPT ![s] = ""]

\* The run ends with an exception propagated to the caller.
Raise(s) ==
    /\ pc' = [pc EXCEPT ![s] = "raised"]
    /\ now' = [now EXCEPT ![s] = None]
    /\ report' = [report EXCEPT ![s] = ""]

Ready(s) == pc[s] \in {"idle", "raised"} /\ runs < MaxRuns

\* run_periodic_ingestion, lines 50-53: now = datetime.now() and the test of
\* line 53, which leads to line 54 or to the else branch of line 71.
DueCheck(s) ==
    /\ now' = [now EXCEPT ![s] = clock]
    /\ pc' = [pc EXCEPT ![s] = IF Due(last_ingestion_time, clock)
                                THEN "ingest" ELSE "display"]
    /\ UNCHANGED report

\* run_periodic_ingestion, lines 71-73: the sidebar's "Last Updated" text.
Display(s) ==
    /\ pc[s] = "display"
    /\ Finish(s)
    /\ UNCHANGED <<clock, last_ingestion_time, key, store, files, runs, forced, res, tasks, results, elapsed>>

\* A rerun of the script reaches line 96: run_periodic_ingestion().
Rerun(s) ==
    /\ Ready(s)
    /\ runs' = runs + 1
    /\ DueCheck(s)
    /\ UNCHANGED <<clock, last_ingestion_time, key, store, files, forced, res, tasks, results, elapsed>>

\* The "Force Feed Refresh Now" button: manual_refresh(), line 79:
\* state.last_ingestion_time = None
ManualRefresh(s) ==
    /\ Ready(s)
    /\ runs' = runs + 1
    /\ last_ingestion_time' = None
    /\ forced' = TRUE
    /\ pc' = [pc EXCEPT ![s] = "check"]
    /\ UNCHANGED <<clock, key, store, files, now, report, res, tasks, results, elapsed>>

\* manual_refresh, line 80: run_periodic_ingestion()
Check(s) ==
    /\ pc[s] = "check"
    /\ DueCheck(s)
    /\ UNCHANGED <<clock, last_ingestion_time, key, store, files, runs, forced, res, tasks, results, elapsed>>

\* run_periodic_ingestion, line 58: data_ingestion.ingest_data()
Ingest(s) ==
    /\ pc[s] = "ingest"
    /\ \/ /\ store' \in NewsAfterIngest(store, clock)
          /\ pc' = [pc EXCEPT ![s] = "set_time"]
          /\ UNCHANGED <<now, report>>
       \/ /\ Raise(s)
          /\ UNCHANGED store
    /\ UNCHANGED <<clock, last_ingestion_time, key, files, runs, forced, res, tasks, results, elapsed>>

\* run_periodic_ingestion, line 61: state.last_ingestion_time = now
\* (`now` is not read after lines 61-62).
SetTime(s) ==
    /\ pc[s] = "set_time"
    /\ last_ingestion_time' = now[s]
    /\ pc' = [pc EXCEPT ![s] = "gen"]
    /\ now' = [now EXCEPT ![s] = None]
    /\ UNCHANGED <<clock, key, store, files, report, runs, forced, res, tasks, results, elapsed>>

\* run_periodic_ingestion, line 68: except Exception as e
AutoReportPropagates(s) == Raise(s)

AutoReportFailed(s) ==
    /\ pc' = [pc EXCEPT ![s] = "except"]
    /\ UNCHANGED <<now, report>>

\* run_periodic_ingestion, line 69: print(f"Auto-report failed: {e}")
Except(s) ==
    /\ pc[s] = "except"
    /\ Finish(s)
    /\ UNCHANGED <<clock, last_ingestion_time, key, store, files, runs, forced, res, tasks, results, elapsed>>

\* run_periodic_ingestion, lines 64-66: report = orchestrator.generate_report()
\* inside the try.
Generate(s) ==
    /\ pc[s] = "gen"
    /\ \E o \in generate_report(store, key) :
          IF o.raised THEN AutoReportFailed(s)
          ELSE /\ report' = [report EXCEPT ![s] = o.ret]
               /\ pc' = [pc EXCEPT ![s] = "save"]
               /\ UNCHANGED now
    /\ UNCHANGED <<clock, last_ingestion_time, key, store, files, runs, forced, res, tasks, results, elapsed>>

\* run_periodic_ingestion, line 67: orchestrator.save_report(report) inside the try.
Save(s) ==
    /\ pc[s] = "save"
    /\ \E o \in save_report(store, files, clock, report[s]) :
          /\ store' = o.store
          /\ files' = o.files
          /\ IF o.raised THEN AutoReportFailed(s) ELSE Finish(s)
    /\ UNCHANGED <<clock, last_ingestion_time, key, runs, forced, res, tasks, results, elapsed>>

\* The "Generate New Report" button, lines 183-185:
\* report = orchestrator.generate_report(), no try around it.
ReportButton(s) ==
    /\ Ready(s)
    /\ runs' = runs + 1
    /\ \E o \in generate_report(store, key) :
          IF o.raised THEN Raise(s)
          ELSE /\ report' = [report EXCEPT ![s] = o.ret]
               /\ pc' = [pc EXCEPT ![s] = "button_save"]
               /\ UNCHANGED now
    /\ UNCHANGED <<clock, last_ingestion_time, key, store, files, forced, res, tasks, results, elapsed>>

\* The "Generate New Report" button, line 186: orchestrator.save_report(report)
ButtonSave(s) ==
    /\ pc[s] = "button_save"
    /\ \E o \in save_report(store, files, clock, report[s]) :
          /\ store' = o.store
          /\ files' = o.files
          /\ IF o.raised THEN Raise(s) ELSE Finish(s)
    /\ UNCHANGED <<clock, last_ingestion_time, key, runs, forced, res, tasks, results, elapsed>>

\* The sidebar's key input, lines 110-111: os.environ["GROQ_API_KEY"] = user_api_key
SetKey ==
    /\ ~key
    /\ key' = TRUE
    /\ UNCHANGED <<clock, last_ingestion_time, store, files, pc, now, report, runs, forced, res, tasks, results, elapsed>>

Tick ==
    /\ clock < MaxClock
    /\ clock' = clock + 1
    /\ UNCHANGED <<last_ingestion_time, key, store, files, pc, now, report, runs, forced, res, tasks, results, elapsed>>

Init ==
    /\ clock = 1
    /\ last_ingestion_time = None
    /\ key \in BOOLEAN
    /\ store = <<>>
    /\ files = <<>>
    /\ pc = [s \in Sessions |-> "idle"]
    /\ now = [s \in Sessions |-> None]
    /\ report = [s \in Sessions |-> ""]
    /\ runs = 0
    /\ forced = FALSE
    /\ res = NoRes
    /\ NoBatch

Next ==
    \/ Tick
    \/ SetKey
    \/ \E s \in Sessions : Rerun(s)
    \/ \E s \in Sessions : ManualRefresh(s)
    \/ \E s \in Sessions : Check(s)
    \/ \E s \in Sessions : Display(s)
    \/ \E s \in Sessions : Ingest(s)
    \/ \E s \in Sessions : SetTime(s)
    \/ \E s \in Sessions : Generate(s)
    \/ \E s \in Sessions : Save(s)
    \/ \E s \in Sessions : Except(s)
    \/ \E s \in Sessions : ReportButton(s)
    \/ \E s \in Sessions : ButtonSave(s)

Spec == Init /\ [][Next]_vars

-----------------------------------------------------------------------------
(* The orchestrator's calls on a given store, with or without the credential *)

Unchanged_sched ==
    UNCHANGED <<clock, last_ingestion_time, files, pc, now, report, runs, forced,
                tasks, results, elapsed>>

ClassifyIntent ==
    /\ res = NoRes
    /\ res' \in classify_intent(key)
    /\ UNCHANGED <<store, key>> /\ Unchanged_sched

AnalyzeTrend ==
    /\ res = NoRes
    /\ res' \in analyze_trend(store, key)
    /\ UNCHANGED <<store, key>> /\ Unchanged_sched

LookupFacts ==
    /\ res = NoRes
    /\ res' \in lookup_facts(store, key)
    /\ UNCHANGED <<store, key>> /\ Unchanged_sched

GenerateReport ==
    /\ res = NoRes
    /\ \E o \in generate_report(store, key) :
          res' = [Res("generate_report", o.ret, o.raised, o.llm_calls) EXCEPT
                     !.docs = o.docs, !.recent_docs = o.recent_docs]
    /\ UNCHANGED <<store, key>> /\ Unchanged_sched

AnswerQuestion ==
    /\ res = NoRes
    /\ res' \in answer_question(store, key)
    /\ UNCHANGED <<store, key>> /\ Unchanged_sched

\* The call has returned and its outcome is forgotten.
Return ==
    /\ res # NoRes
    /\ res' = NoRes
    /\ UNCHANGED <<store, key>> /\ Unchanged_sched

ChunkKinds == {Chunk("news_chunk", t, "article") : t \in 1..MaxTs}
              \cup {Chunk("report", t, "llm_text") : t \in 1..MaxTs}

InitQuery ==
    /\ clock = MaxTs
    /\ last_ingestion_time = None
    /\ key \in BOOLEAN
    /\ store \in UNION {[1..n -> ChunkKinds] : n \in 0..MaxQueryStore}
    /\ files = <<>>
    /\ pc = [s \in Sessions |-> "idle"]
    /\ now = [s \in Sessions |-> None]
    /\ report = [s \in Sessions |-> ""]
    /\ runs = 0
    /\ forced = FALSE
    /\ res = NoRes
    /\ NoBatch

NextQuery ==
    \/ ClassifyIntent
    \/ AnalyzeTrend
    \/ LookupFacts
    \/ GenerateReport
    \/ AnswerQuestion
    \/ Return

SpecQuery == InitQuery /\ [][NextQuery]_vars

(* analyze_trend on stores large enough for both searches to leave documents out *)

ReportTexts == <<"report_01", "report_02", "report_03", "report_04", "report_05",
                 "report_06", "report_07", "report_08", "report_09", "report_10",
                 "report_11">>

SortedTs(n) == {f \in [1..n -> 1..MaxTs] : \A i \in 1..(n - 1) : f[i] <= f[i + 1]}

StoreOf(f, g) ==
    [i \in 1..Len(f) |-> Chunk("report", f[i], ReportTexts[i])]
        \o [i \in 1..Len(g) |-> Chunk("news_chunk", g[i], "article")]

\* The stores in which one of the two searches can leave documents out: up to
\* ReportK + 1 reports with a few news chunks, or a few reports with up to
\* TrendNewsK + 1 news chunks; each kind in the order of its timestamps (no
\* operation reads the order of the store).
TrendStores ==
    {StoreOf(f, g) : f \in UNION {SortedTs(n) : n \in 0..(ReportK + 1)},
                     g \in UNION {SortedTs(n) : n \in 0..MaxFew}}
    \cup
    {StoreOf(f, g) : f \in UNION {SortedTs(n) : n \in 0..MaxFew},
                     g \in UNION {SortedTs(n) : n \in 0..(TrendNewsK + 1)}}

InitTrend ==
    /\ clock = MaxTs
    /\ last_ingestion_time = None
    /\ key \in BOOLEAN
    /\ store \in TrendStores
    /\ files = <<>>
    /\ pc = [s \in Sessions |-> "idle"]
    /\ now = [s \in Sessions |-> None]
    /\ report = [s \in Sessions |-> ""]
    /\ runs = 0
    /\ forced = FALSE
    /\ res = NoRes
    /\ NoBatch

\* The reports that save_report has indexed since the initial state (the
\* initial reports hold the texts of ReportTexts).
SavedReports == {i \in OfType(store, "report") : store[i].content \in LLMTexts}

\* orchestrator.save_report(report_content), called with a digest that
\* generate_report got from the LLM (the credential is configured), on a store
\* of at most ReportK reports.
SaveReport ==
    /\ res = NoRes
    /\ key
    /\ Cardinality(SavedReports) < MaxSaves
    /\ Cardinality(OfType(store, "report")) <= ReportK
    /\ \E content \in LLMTexts :
          \E o \in save_report(store, files, clock, content) :
              /\ store' = o.store
              /\ files' = o.files
    /\ UNCHANGED <<clock, last_ingestion_time, key, pc, now, report, runs, forced, res, tasks, results, elapsed>>

NextTrend == AnalyzeTrend \/ SaveReport \/ Return

SpecTrend == InitTrend /\ [][NextTrend]_vars

(* generate_report on stores large enough for the search and the cut to leave
   news chunks out *)

\* n news chunks, the i-th of timestamp i; with tie > 0 the chunk after the
\* tie-th has the tie-th's timestamp.
DigestStore(n, tie) ==
    [i \in 1..n |-> Chunk("news_chunk", IF tie > 0 /\ i = tie + 1 THEN tie ELSE i, "article")]

DigestStores ==
    {DigestStore(n, tie) : n \in 0..(DigestPoolK + 1), tie \in 0..DigestPoolK}

InitDigest ==
    /\ clock = 1
    /\ last_ingestion_time = None
    /\ key \in BOOLEAN
    /\ store \in DigestStores
    /\ files = <<>>
    /\ pc = [s \in Sessions |-> "idle"]
    /\ now = [s \in Sessions |-> None]
    /\ report = [s \in Sessions |-> ""]
    /\ runs = 0
    /\ forced = FALSE
    /\ res = NoRes
    /\ NoBatch

NextDigest == GenerateReport \/ Return

SpecDigest == InitDigest /\ [][NextDigest]_vars

-----------------------------------------------------------------------------
(* The refresh scheduler's claims, under Spec *)

InRefresh(s) == pc[s] \in {"ingest", "set_time"}

\* C1: with no force-refresh, two callers whose due-checks fall within the
\* same interval never both trigger ingestion: while one is between its
\* due-check and its timestamp update, no other caller's check at a time within
\* one interval of it is found due.
C1_RefreshIdempotent ==
    ~forced =>
        \A s, t \in Sessions :
            (s # t /\ InRefresh(s) /\ InRefresh(t)) =>
                (now[s] - now[t] > Interval \/ now[t] - now[s] > Interval)

\* C2: the refresh check that manual_refresh makes after its reset always
\* finds the state due and goes on to the ingestion.
C2_ForceRefreshDue ==
    [][\A s \in Sessions : Check(s) => pc'[s] = "ingest"]_vars

\* C3: a refresh check goes on to the ingestion if and only if
\* last_ingestion_time is unset or more than one hour older than the check's
\* time; otherwise it goes to the else branch, where the run ends with
\* last_ingestion_time, the store and the report files as they were.
C3_DueIffUnsetOrOlder ==
    [][\A s \in Sessions :
          /\ (Rerun(s) \/ Check(s)) =>
                /\ pc'[s] = "ingest" <=>
                      (last_ingestion_time = None \/ clock - last_ingestion_time >= Interval + 1)
                /\ pc'[s] # "ingest" => pc'[s] = "display"
                /\ UNCHANGED <<last_ingestion_time, store, files>>
          /\ Display(s) =>
                /\ pc'[s] = "idle"
                /\ UNCHANGED <<last_ingestion_time, store, files>>
      ]_vars

\* C3 witness: a check made exactly one hour after the last ingestion time
\* has gone to the else branch.
C3_Witness ==
    \E s \in Sessions :
        pc[s] = "display" /\ last_ingestion_time # None
                          /\ now[s] - last_ingestion_time = Interval

\* C4: the step that brings a due refresh to its report chain is the one that
\* sets last_ingestion_time to the refresh's `now`; the chain's steps
\* (generate_report, save_report, the except clause) leave last_ingestion_time
\* as it is and never end the run with an exception propagated.
C4_ReportFailureKeepsTime ==
    [][\A s \in Sessions :
          /\ (pc[s] # "gen" /\ pc'[s] = "gen") =>
                (now[s] # None /\ last_ingestion_time' = now[s])
          /\ (Generate(s) \/ Save(s) \/ Except(s)) =>
                /\ last_ingestion_time' = last_ingestion_time
                /\ pc'[s] \in {"save", "except", "idle"}
                /\ (pc[s] = "except" => pc'[s] = "idle")
      ]_vars

\* C4 witness: a report chain has failed after the refresh set the time, and
\* the time is still set.
C4_Witness ==
    \E s \in Sessions :
        pc[s] = "except" /\ ~forced /\ last_ingestion_time # None

\* C9 as stated: every save_report(generate_report()) that returns has added
\* exactly one Report chunk holding the generated text, stamped with the time
\* of the call, and has written a file holding the generated text.
C9_SaveAddsOneReport ==
    [][\A s \in Sessions :
          ((Save(s) \/ ButtonSave(s)) /\ pc'[s] = "idle") =>
              /\ store' = Append(store, Chunk("report", clock, report[s]))
              /\ ReportFileName(clock) \in DOMAIN files'
              /\ files'[ReportFileName(clock)] = report[s]
      ]_vars

\* C9 amended: a save_report(generate_report()) that returns has written
\* a file holding the generated text and has added either exactly one Report
\* chunk (the generated text, stamped with the time of the call) or, when the
\* indexing failed, none; one whose file write raises has indexed nothing.
\* No other chunk or file changes.
C9_SaveAddsAtMostOneReport ==
    [][\A s \in Sessions :
          (Save(s) \/ ButtonSave(s)) =>
              IF pc'[s] = "idle"
              THEN /\ store' \in {store, Append(store, Chunk("report", clock, report[s]))}
                   /\ DOMAIN files' = DOMAIN files \cup {ReportFileName(clock)}
                   /\ files'[ReportFileName(clock)] = report[s]
                   /\ \A n \in DOMAIN files \ {ReportFileName(clock)} : files'[n] = files[n]
              ELSE store' = store
      ]_vars

\* C9 witness: a generated digest has been saved: it is a Report chunk of the
\* store and the content of the file of its time.
C9_Witness ==
    \E i \in Ids(store) :
        /\ store[i].type = "report"
        /\ store[i].content \in LLMTexts
        /\ ReportFileName(store[i].timestamp) \in DOMAIN files
        /\ files[ReportFileName(store[i].timestamp)] = store[i].content

\* C12: every save_report that returns, from the report button or from the
\* scheduler's auto-report, adds one file to the report files (so the number of
\* files equals the number of calls) and leaves the content of every earlier
\* file as it was.
C12_OneFilePerSave ==
    [][\A s \in Sessions :
          ((Save(s) \/ ButtonSave(s)) /\ pc'[s] = "idle") =>
              /\ Cardinality(DOMAIN files') = Cardinality(DOMAIN files) + 1
              /\ \A n \in DOMAIN files : n \in DOMAIN files' /\ files'[n] = files[n]
      ]_vars

\* C14: the evidence store is append-only: every step leaves each existing
\* chunk in place and unchanged; a step that changes the store adds chunks at
\* its end and is the ingestion (news chunks) or save_report's re-indexing
\* (a Report chunk); the refresh checks, the force-refresh and the calls that
\* read the store add nothing.
C14_StoreAppendOnly ==
    [][/\ Len(store') >= Len(store)
       /\ \A i \in Ids(store) : store'[i] = store[i]
       /\ \A i \in Ids(store') \ Ids(store) :
             IF store'[i].type = "report"
             THEN SaveReport \/ \E s \in Sessions : Save(s) \/ ButtonSave(s)
             ELSE \E s \in Sessions : Ingest(s)
      ]_vars

\* C14 witness: an ingestion and a save_report have both added to a store that
\* already held a chunk, which is still there.
C14_Witness ==
    /\ Len(store) >= 3
    /\ \E i, j \in Ids(store) :
          i > 1 /\ j > 1 /\ store[i].type = "news_chunk" /\ store[j].type = "report"

\* C16: every Report chunk of the evidence store holds a digest that the LLM
\* generated: neither the auto-report chain nor the report button indexes one
\* of generate_report's fallback messages as a Report.
C16_ReportsAreDigests ==
    \A i \in OfType(store, "report") :
        /\ store[i].content \in LLMTexts
        /\ store[i].content \notin {NO_NEWS_MSG, NO_KEY_MSG}

\* C17: when ingest_data raises in a due refresh check, the step leaves
\* last_ingestion_time as it was, still unset or more than one hour old (a
\* refresh check made next is due again), and the run ends there: it
\* generates and saves no report.
C17_IngestFailureKeepsDue ==
    [][\A s \in Sessions :
          (Ingest(s) /\ pc'[s] = "raised") =>
              /\ last_ingestion_time' = last_ingestion_time
              /\ UNCHANGED <<store, files>>
              /\ report'[s] = ""
              /\ \/ last_ingestion_time' = None
                 \/ clock' - last_ingestion_time' > Interval
      ]_vars

-----------------------------------------------------------------------------
(* The trend analyzer's claims, under SpecTrend *)

NewerNews == {i \in OfType(store, "news_chunk") : store[i].timestamp > res.last_report_time}

\* C5 as stated: a news chunk of the store is in the "new" context of an
\* analyze_trend that returns if and only if its timestamp is greater than the
\* anchor time.
C5_NewIffNewer ==
    (res.op = "analyze_trend" /\ ~res.raised) =>
        \A i \in OfType(store, "news_chunk") :
            i \in res.recent_news <=> store[i].timestamp > res.last_report_time

\* C5 amended: every chunk of the "new" context of analyze_trend is a news
\* chunk whose timestamp is greater than the anchor time (one whose timestamp
\* equals it is excluded), and the context holds all of these when they are
\* at most 5 and 5 of them otherwise.
C5_NewOnlyNewerUpToK ==
    res.op = "analyze_trend" =>
        /\ \A i \in res.recent_news :
              /\ i \in Ids(store)
              /\ store[i].type = "news_chunk"
              /\ store[i].timestamp > res.last_report_time
        /\ Cardinality(res.recent_news) = Min2(5, Cardinality(NewerNews))

\* C5 witness: analyze_trend has left out a news chunk of the anchor's very
\* timestamp and has taken a newer one.
C5_Witness ==
    /\ res.op = "analyze_trend"
    /\ res.last_report_time > 0
    /\ \E i \in OfType(store, "news_chunk") :
          store[i].timestamp = res.last_report_time /\ i \notin res.recent_news
    /\ res.recent_news # {}

\* C6: the anchor of an analyze_trend that returns is a report of the greatest timestamp among
\* the reports of the store; with no report in the store the old side is the
\* "no past reports" sentinel and the anchor time is 0.
C6_AnchorIsLatestReport ==
    (res.op = "analyze_trend" /\ ~res.raised) =>
        IF OfType(store, "report") = {}
        THEN res.old_context = NO_PAST_REPORTS /\ res.last_report_time = 0
        ELSE /\ \A i \in OfType(store, "report") : store[i].timestamp <= res.last_report_time
             /\ \E i \in OfType(store, "report") :
                   /\ store[i].timestamp = res.last_report_time
                   /\ store[i].content = res.old_context

\* C11: once save_report has indexed a report at time t, every analyze_trend
\* that returns afterwards has an anchor time of at least t, and no chunk of
\* its "new" context has a timestamp of t or less.
C11_SavedReportIsAnchor ==
    (res.op = "analyze_trend" /\ ~res.raised) =>
        \A i \in SavedReports :
            /\ res.last_report_time >= store[i].timestamp
            /\ \A j \in res.recent_news : store[j].timestamp > store[i].timestamp

-----------------------------------------------------------------------------
(* The fan-out's claim, under SpecFeeds *)

\* C13: a feed that fails contributes no chunk and ends like any other task;
\* the batch returns the chunks of every feed, each feed's in full; and no
\* feed waits for another: every feed that has begun began when the batch was
\* launched, however long the fetches of the other feeds take.
C13_FeedsIndependent ==
    /\ \A f \in RSS_FEEDS :
          tasks[f].failed => (tasks[f].all_chunks = <<>> /\ tasks[f].pc = "done")
    /\ results.returned =>
          \A f \in RSS_FEEDS :
              Cardinality({i \in DOMAIN results.all_chunks : results.all_chunks[i] = f})
                  = Len(tasks[f].all_chunks)
    /\ \A f \in RSS_FEEDS : tasks[f].pc # "pending" => tasks[f].started = 0

-----------------------------------------------------------------------------
(* The digest's claim, under SpecDigest *)

\* C15: a generate_report that retrieves (the LLM is configured) retrieves
\* min(20, number of news chunks) news chunks; its digest holds min(10, number
\* retrieved) of them, each once, none older than a retrieved chunk left out,
\* in descending order of timestamp; with none retrieved it returns the "no
\* recent news" message and makes no LLM call, otherwise it makes one.
C15_DigestTopTenNewest ==
    (res.op = "generate_report" /\ key) =>
        LET ts(i) == store[i].timestamp
            recent == {res.recent_docs[a] : a \in DOMAIN res.recent_docs}
        IN  /\ res.docs \subseteq OfType(store, "news_chunk")
            /\ Cardinality(res.docs) = Min2(20, Cardinality(OfType(store, "news_chunk")))
            /\ recent \subseteq res.docs
            /\ Len(res.recent_docs) = Min2(10, Cardinality(res.docs))
            /\ Cardinality(recent) = Len(res.recent_docs)
            /\ \A i \in recent : \A j \in res.docs \ recent : ts(i) >= ts(j)
            /\ \A a, b \in DOMAIN res.recent_docs :
                  a < b => ts(res.recent_docs[a]) >= ts(res.recent_docs[b])
            /\ IF res.docs = {}
               THEN res.ret = NO_NEWS_MSG /\ res.llm_calls = 0 /\ ~res.raised
               ELSE res.llm_calls = 1

\* C15 witness: of 21 news chunks generate_report has retrieved 20 and has
\* built its digest from 10, leaving the oldest chunk of the store in the pool.
C15_Witness ==
    /\ res.op = "generate_report"
    /\ Len(store) = 21
    /\ Cardinality(res.docs) = 20
    /\ Len(res.recent_docs) = 10
    /\ 1 \in res.docs
    /\ \A a \in DOMAIN res.recent_docs : res.recent_docs[a] # 1
    /\ res.llm_calls = 1

-----------------------------------------------------------------------------
(* The claims about the router, the fact answerer and the credential, under SpecQuery *)

ExactLabels == {<<l>> : l \in LabelSet}

\* C7 as stated: classify_intent returns FACT_LOOKUP whenever the router's
\* answer (white space around it aside) is not exactly one of the four
\* labels, and when the LLM is unavailable or raises.
C7_DefaultUnlessExactLabel ==
    res.op = "classify_intent" =>
        (Strip(res.raw) \notin ExactLabels => res.ret = "FACT_LOOKUP")

\* C7 amended: classify_intent returns FACT_LOOKUP for every router answer that
\* contains none of the four labels (the empty answer, a fifth label), and
\* when the LLM is unavailable or raises.
C7_DefaultUnlessLabelContained ==
    res.op = "classify_intent" =>
        /\ (\A i \in DOMAIN res.raw : res.raw[i] \notin LabelSet) => res.ret = "FACT_LOOKUP"
        /\ ~key => res.ret = "FACT_LOOKUP"
        /\ res.raw = <<"raises">> => res.ret = "FACT_LOOKUP"
        /\ ~res.raised

\* C7 witness: the router answered a fifth label and classify_intent returned
\* FACT_LOOKUP.
C7_Witness ==
    /\ res.op = "classify_intent"
    /\ key
    /\ res.raw = <<"other">>
    /\ res.ret = "FACT_LOOKUP"

\* C8 as stated: whatever the store and the credential, lookup_facts whose
\* search finds no chunk returns the "not found" sentinel with no LLM call.
C8_NotFoundNoLLM ==
    (res.op = "lookup_facts" /\ store = <<>>) =>
        (res.ret = NOT_FOUND_MSG /\ res.llm_calls = 0)

\* C8 amended: lookup_facts whose search can find no chunk makes no LLM call
\* and returns the "not found" sentinel when the credential is configured,
\* the "Please enter your Groq API Key first." message when it is not.
C8_NotFoundOrNoKeyNoLLM ==
    (res.op = "lookup_facts" /\ store = <<>>) =>
        /\ res.llm_calls = 0
        /\ ~res.raised
        /\ key => res.ret = NOT_FOUND_MSG
        /\ ~key => res.ret = NO_KEY_MSG

\* C8 witness: lookup_facts has returned the sentinel on an empty store.
C8_Witness ==
    /\ res.op = "lookup_facts"
    /\ store = <<>>
    /\ key
    /\ res.ret = NOT_FOUND_MSG

\* C10: with no credential configured, none of classify_intent, analyze_trend,
\* lookup_facts, generate_report and answer_question raises: each returns its
\* fixed fallback value.
C10_NoKeyNeverRaises ==
    (~key /\ res.op # "none") =>
        /\ ~res.raised
        /\ res.ret \in {"FACT_LOOKUP", NO_KEY_MSG, NO_KEY_ENV_MSG}

====
